---------------------------- MODULE Spec2Model ----------------------------
(***************************************************************************)
(* Model of the sync loop of mautrix.Client (client.go): Sync, StopSync,   *)
(* incrementSyncingID and getSyncingID.  Two goroutines run Sync() on one  *)
(* Client (a cycle and the cycle that supersedes it; each may call Sync    *)
(* again once its call has returned) and a third calls StopSync().  They   *)
(* share the Client's syncingID and mutex and its Store (the next_batch    *)
(* token and the filter ID); the Syncer (ProcessResponse, OnFailedSync)    *)
(* and the homeserver (/sync, filter creation) answer any way they can.    *)
(*                                                                         *)
(* Tokens are positions in the server's event stream: 0 is the empty       *)
(* token "", and a successful /sync with since = t returns a next_batch    *)
(* greater than t.  Filter IDs are numbers, 0 being the empty string.      *)
(***************************************************************************)
EXTENDS Naturals, Sequences, FiniteSets, TLC

\* ------------------------------------------------------------- bounds
\* Last position of the server's event stream.
MaxToken == 2
\* Cap on the number of Sync() and StopSync() calls.
MaxGen == 3
\* Number of distinct filter IDs the homeserver hands out.
MaxFilter == 1
\* syncingID is a uint32, which TLC's integers cannot hold: the model keeps
\* the counter's wrap-around at a narrower width, 2^SyncingIDBits > MaxGen.
SyncingIDBits == 3
Wrap == 2 ^ SyncingIDBits

\* The goroutines running Sync(), and the one calling StopSync().
Syncers == {"s1", "s2"}
Controller == "ctl"
\* syncingMutex unlocked.
NoProc == "none"

Tokens == 0 .. MaxToken
FilterIDs == 1 .. MaxFilter

\* The errors the collaborators return; Sync returns nil (ErrNone) or one
\* of them.
ErrNone == "nil"
ErrCreateFilter == "CreateFilter error"
ErrSyncRequest == "SyncRequest error"
ErrOnFailedSync == "OnFailedSync error"
ErrProcessResponse == "ProcessResponse error"
\* ret[p] before p's first return from Sync.
NoReturn == "no return"

VARIABLES
    syncingID,       \* Client.syncingID
    syncingMutex,    \* Client.syncingMutex: the goroutine holding it, or NoProc
    storeNextBatch,  \* Store: the token SaveNextBatch wrote last
    storeFilterID,   \* Store: the filter ID SaveFilterID wrote last
    pc,              \* pc[p]: where Sync goroutine p stands
    stopPC,          \* where the goroutine calling StopSync stands
    mySyncingID,     \* the local syncingID of p's Sync call
    nextBatch,       \* the local nextBatch of p's Sync call
    filterID,        \* the local filterID of p's Sync call
    resSync,         \* resSync.NextBatch of p's last successful SyncRequest
    ret,             \* what p's last Sync call returned
    \* history of p's current (or last) Sync call
    loaded,          \* <<LoadNextBatch's result, LoadFilterID's result>>
    fetched,         \* the successful fetches: <<since, filter, next_batch>>
    saved,           \* the tokens given to SaveNextBatch
    processed,       \* the ProcessResponse calls: <<since, next_batch>>
    filterCalls,     \* <<IDs CreateFilter returned (0: an error), IDs given
                     \*   to SaveFilterID>>
    failedFetch,     \* the failed SyncRequest awaiting its retry, or <<>>
    retFrom,         \* the statement p's last Sync call returned from
    pendingFailure,  \* <<next_batch, dirty>> of the payload on which
                     \*   ProcessResponse failed last, until the next Sync()
                     \*   call; dirty: a SaveNextBatch has followed the
                     \*   save of that next_batch
    failedToken,     \* the pendingFailure p's Sync call found when called,
                     \*   until its first fetch; dirty: a SaveNextBatch
                     \*   came between the failure and p's LoadNextBatch
    calls,           \* the number of Sync() and StopSync() calls made so far
    lastSaver,       \* the goroutine whose SaveNextBatch wrote storeNextBatch
    \* appservice: the delivery checkpoints (message_send_checkpoint.go)
    websocket,       \* AppService: the websocket is established
    endpoint,        \* AppService.MessageSendCheckpointEndpoint
    callerPC,        \* where the goroutine calling the AppService senders
                     \*   stands
    cpPC,            \* cpPC[d]: where dispatch goroutine d stands
    batch,           \* the checkpoints argument of d's SendCheckpoints call
    origin,          \* the call that started d, with its arguments
    attempts,        \* the deliveries d's SendCheckpoints call has attempted
    result,          \* what d's SendCheckpoints call returned
    \* Client.MakeRequest
    mrPC,            \* where the goroutine calling MakeRequest stands
    mrCall,          \* the arguments of its MakeRequest call
    mrResponse,      \* the response cli.Client.Do returned, if any
    mrReturn         \* what the call returned: <<body bytes, error>>

syncing == <<syncingID, syncingMutex, storeNextBatch, storeFilterID, pc,
             stopPC, mySyncingID, nextBatch, filterID, resSync, ret,
             loaded, fetched, saved, processed, filterCalls, failedFetch,
             retFrom, pendingFailure, failedToken, calls, lastSaver>>

checkpointing == <<websocket, endpoint, callerPC, cpPC, batch, origin,
                   attempts, result>>

requesting == <<mrPC, mrCall, mrResponse, mrReturn>>

vars == <<syncing, checkpointing, requesting>>

store == <<storeNextBatch, storeFilterID, lastSaver>>
generation == <<syncingID, syncingMutex>>
locals == <<mySyncingID, nextBatch, filterID, resSync>>
returned == <<ret, retFrom, failedToken, pendingFailure>>
history == <<loaded, fetched, saved, processed, filterCalls, failedFetch>>

\* ------------------------------------------- delivery checkpoints: data
\* Longest batch a caller hands to SendCheckpoints.
MaxBatch == 2

\* The goroutines that run a dispatch (each `go checkpoint.Send(as)` and each
\* direct SendCheckpoints call takes one), and the goroutine that calls the
\* AppService senders.
Dispatchers == {"d1", "d2"}

\* MessageSendCheckpointStep
StepClient == "CLIENT"
StepHomeserver == "HOMESERVER"
StepBridge == "BRIDGE"
StepDecrypted == "DECRYPTED"
StepRemote == "REMOTE"
StepCommand == "COMMAND"
\* The steps the callers of the model report.
Steps == {StepBridge, StepRemote}

\* MessageSendCheckpointStatus
StatusSuccesss == "SUCCESS"
StatusWillRetry == "WILL_RETRY"
StatusPermFailure == "PERM_FAILURE"

\* MessageSendCheckpointReportedBy
ReportedByAsmux == "ASMUX"
ReportedByBridge == "BRIDGE"

\* event.Type values, and the events the callers report: a text message and
\* a reaction (whose content has no msgtype).
EventMessage == "m.room.message"
EventReaction == "m.reaction"
Events ==
    {[ID |-> "$message", RoomID |-> "!room1", Type |-> EventMessage,
      MsgType |-> "m.text"],
     [ID |-> "$reaction", RoomID |-> "!room2", Type |-> EventReaction,
      MsgType |-> ""]}

\* The errors the callers report, and err.Error().
Errors == {[msg |-> "timeout"], [msg |-> "not allowed"]}
Error(err) == err.msg

\* time.Now(): the model has one instant.
Now == "time.Now()"

\* Mutant: the checkpoint is attributed to asmux.
NewMessageSendCheckpointByAsmux(evt, step, status) ==
    [EventID |-> evt.ID, RoomID |-> evt.RoomID, Step |-> step,
     Timestamp |-> Now, Status |-> status, EventType |-> evt.Type,
     ReportedBy |-> ReportedByAsmux, RetryNum |-> 0,
     MessageType |-> IF evt.Type = EventMessage THEN evt.MsgType ELSE "",
     Info |-> ""]

\* NewMessageSendCheckpoint: the struct it returns (RetryNum and Info keep
\* their zero values; MessageType too unless the event is a message).
NewMessageSendCheckpoint(evt, step, status) ==
    [EventID |-> evt.ID, RoomID |-> evt.RoomID, Step |-> step,
     Timestamp |-> Now, Status |-> status, EventType |-> evt.Type,
     ReportedBy |-> ReportedByBridge, RetryNum |-> 0,
     MessageType |-> IF evt.Type = EventMessage THEN evt.MsgType ELSE "",
     Info |-> ""]

\* Mutant: every failure is reported as permanent.
ErrorStatusAlwaysPermanent(permanent) == StatusPermFailure

\* SendErrorMessageSendCheckpoint: status := StatusWillRetry;
\* if permanent { status = StatusPermFailure }
ErrorStatus(permanent) ==
    IF permanent THEN StatusPermFailure ELSE StatusWillRetry

\* The checkpoint SendMessageSendCheckpoint hands to Send.
SuccessCheckpoint(evt, step) ==
    NewMessageSendCheckpoint(evt, step, StatusSuccesss)

\* The checkpoint SendErrorMessageSendCheckpoint hands to Send:
\* checkpoint.Info = err.Error()
ErrorCheckpoint(evt, step, err, permanent) ==
    [NewMessageSendCheckpoint(evt, step, ErrorStatus(permanent))
        EXCEPT !.Info = Error(err)]

\* The checkpoints a caller batches for a direct SendCheckpoints call, and
\* the batches: any sequence of them up to MaxBatch, the empty one included.
BatchCheckpoints ==
    {SuccessCheckpoint(CHOOSE e \in Events : e.Type = EventMessage,
                       StepBridge),
     ErrorCheckpoint(CHOOSE e \in Events : e.Type = EventReaction,
                     StepRemote, [msg |-> "not allowed"], TRUE)}
Batches ==
    UNION {[1 .. n -> BatchCheckpoints] : n \in 0 .. MaxBatch}

\* MessageSendCheckpoint.Send: the slice []*MessageSendCheckpoint{cp} it
\* passes to SendCheckpoints.
Send(cp) == <<cp>>

\* Mutant: the envelope keeps only the first checkpoint.
CheckpointsJSONFirstOnly(checkpoints) ==
    [Checkpoints |-> IF checkpoints = <<>> THEN <<>>
                                            ELSE <<Head(checkpoints)>>]

\* CheckpointsJSON{Checkpoints: checkpoints}
CheckpointsJSON(checkpoints) == [Checkpoints |-> checkpoints]

\* The JSON object of a MessageSendCheckpoint, by its struct tags: a function
\* from the keys present to their values; message_type and info are
\* omitempty.
JSONField(cp, key) ==
    CASE key = "event_id" -> cp.EventID
      [] key = "room_id" -> cp.RoomID
      [] key = "step" -> cp.Step
      [] key = "timestamp" -> cp.Timestamp
      [] key = "status" -> cp.Status
      [] key = "event_type" -> cp.EventType
      [] key = "reported_by" -> cp.ReportedBy
      [] key = "retry_num" -> cp.RetryNum
      [] key = "message_type" -> cp.MessageType
      [] key = "info" -> cp.Info
JSONKeys(cp) ==
    {"event_id", "room_id", "step", "timestamp", "status", "event_type",
     "reported_by", "retry_num"}
        \cup {key \in {"message_type", "info"} : JSONField(cp, key) # ""}
EncodeCheckpoint(cp) == [key \in JSONKeys(cp) |-> JSONField(cp, key)]

\* json.NewEncoder(&body).Encode(checkpointsJSON): the body, and whether the
\* encoder accepts the value (time.Time is refused outside years 0..9999).
Encode(checkpointsJSON) ==
    [checkpoints |->
        [k \in 1 .. Len(checkpointsJSON.Checkpoints) |->
            EncodeCheckpoint(checkpointsJSON.Checkpoints[k])]]
Encodable(checkpointsJSON) ==
    \A k \in 1 .. Len(checkpointsJSON.Checkpoints) :
        checkpointsJSON.Checkpoints[k].Timestamp = Now

\* AppService.MessageSendCheckpointEndpoint: not configured, a URL, or a
\* string http.NewRequestWithContext refuses; Registration.AppToken.
NoEndpoint == ""
GoodEndpoint == "https://collector.example/checkpoints"
BadEndpoint == "://collector"
Endpoints == {NoEndpoint, GoodEndpoint, BadEndpoint}
AppToken == "as_token"

\* The request SendCheckpoints builds and sets the headers of.
NewRequest(url, body) ==
    [method |-> "POST", url |-> url, body |-> body,
     Authorization |-> <<"Bearer", AppToken>>,
     ContentType |-> "application/json"]

\* The status codes the collector answers with (NoStatus: no response).
StatusCodes == {199, 200, 299, 300, 500}
NoStatus == 0
\* resp.StatusCode < 200 || resp.StatusCode > 299
UnexpectedStatus(code) == code < 200 \/ code > 299

\* What SendCheckpoints returns: nil or one of its errors.
ErrWebsocket == "SendWebsocket error"
ErrEncode == "failed to encode message send checkpoint JSON"
ErrNewRequest == "NewRequestWithContext error"
ErrDo == "Failed to send bridge state update"
ErrStatus == "Unexpected status code sending bridge state update"
\* result[d] while d's call has not returned.
NoResult == "no result"

\* ------------------------------------------------- MakeRequest: data
\* A nil pointer, a nil interface, a nil slice.
Nil == [nil |-> TRUE]

Methods == {"GET", "POST"}

\* httpURL: a URL http.NewRequest parses, with its Path, or one it rejects.
URLs ==
    {[parses |-> TRUE, Path |-> "/_matrix/client/r0/sync"],
     [parses |-> FALSE, Path |-> ""]}

\* reqBody: nil, a value json.Marshal encodes, or one it rejects.
ReqBodies == {Nil, [marshals |-> TRUE], [marshals |-> FALSE]}

\* resBody: nil, or a pointer to decode the response into.
ResBodies == {Nil, [target |-> "resp"]}

\* The status codes the homeserver, or a proxy before it, answers with.
ResponseCodes == {199, 200, 299, 300, 403, 502}

\* A response body is the sequence of its tokens: an object is "{", then
\* keys and values in turn, then "}".
ErrorBody == <<"{", "errcode", "M_FORBIDDEN", "error", "denied", "}">>
EmptyCodeBody == <<"{", "errcode", "", "error", "denied", "}">>
OtherBody == <<"{", "next_batch", "s1", "}">>
HTMLBody == <<"<html>", "502 Bad Gateway", "</html>">>
ResponseBodies == {ErrorBody, EmptyCodeBody, OtherBody, HTMLBody, <<>>}

\* json.Unmarshal's syntax check, which precedes any decoding.
ValidJSON(contents) ==
    /\ Len(contents) >= 2
    /\ Len(contents) % 2 = 0
    /\ contents[1] = "{"
    /\ contents[Len(contents)] = "}"

\* The string value json.Unmarshal stores in the field tagged key: the
\* zero value stays when the object has no such key.
JSONString(contents, key) ==
    LET at == {i \in 1..((Len(contents) - 2) \div 2) : contents[2 * i] = key}
    IN IF at = {} THEN ""
       ELSE contents[2 * (CHOOSE i \in at : \A j \in at : j <= i) + 1]

\* respErr := &RespError{}; _ = json.Unmarshal(contents, respErr)
RespError(contents) ==
    IF ValidJSON(contents)
    THEN [ErrCode |-> JSONString(contents, "errcode"),
          Err |-> JSONString(contents, "error")]
    ELSE [ErrCode |-> "", Err |-> ""]

\* The errors MakeRequest passes on unchanged, and the nil error.
NilError == [kind |-> "nil"]
MarshalError == [kind |-> "json.Marshal"]
NewRequestError == [kind |-> "http.NewRequest"]
ClientDoError == [kind |-> "Client.Do"]
ReadAllError == [kind |-> "ioutil.ReadAll"]
UnmarshalError == [kind |-> "json.Unmarshal"]

\* Mutant: the body is dropped from the message of every HTTPError.
HTTPErrorDropsBody(method, path, code, contents) ==
    LET respErr == RespError(contents)
        wraps == respErr.ErrCode # ""
    IN [kind |-> "HTTPError",
        Code |-> code,
        Message |-> <<"Failed to ", method, " JSON to ", path>>,
        WrappedError |-> IF wraps THEN respErr ELSE Nil,
        RespError |-> IF wraps THEN respErr ELSE Nil]

\* The HTTPError of a response that is not 2xx. The message is the
\* sequence of the strings concatenated into it.
HTTPError(method, path, code, contents) ==
    LET respErr == RespError(contents)
        wraps == respErr.ErrCode # ""
        msg == <<"Failed to ", method, " JSON to ", path>>
    IN [kind |-> "HTTPError",
        Code |-> code,
        Message |-> IF wraps THEN msg ELSE msg \o <<": ">> \o contents,
        WrappedError |-> IF wraps THEN respErr ELSE Nil,
        RespError |-> IF wraps THEN respErr ELSE Nil]

\* The request MakeRequest builds and hands to cli.Client.Do.
AccessToken == "syt_token"
UserAgent == "mautrix-go"
HTTPRequest(method, url, reqBody) ==
    [Method |-> method,
     Path |-> url.Path,
     JSONBody |-> reqBody # Nil,
     ContentType |-> IF reqBody # Nil THEN "application/json" ELSE "",
     UserAgent |-> UserAgent,
     Authorization |-> <<"Bearer ", AccessToken>>]

\* The values of mrCall, mrResponse and mrReturn before there is one.
NoCall == [none |-> "call"]
NoResponse == [none |-> "response"]
NoReturnValue == [none |-> "return"]

\* return contents, err
Bytes(contents) == [bytes |-> contents]
Returns(body, err) == [body |-> body, err |-> err]

\* ---------------------------------------------------------------- Init
\* No Sync() or StopSync() call is running.
NoSyncRunning ==
    /\ syncingMutex = NoProc
    /\ storeNextBatch \in {0, 1}
    /\ storeFilterID \in {0} \cup FilterIDs
    /\ pc = [p \in Syncers |-> "idle"]
    /\ stopPC = "idle"
    /\ mySyncingID = [p \in Syncers |-> 0]
    /\ nextBatch = [p \in Syncers |-> 0]
    /\ filterID = [p \in Syncers |-> 0]
    /\ resSync = [p \in Syncers |-> 0]
    /\ ret = [p \in Syncers |-> NoReturn]
    /\ loaded = [p \in Syncers |-> <<0, 0>>]
    /\ fetched = [p \in Syncers |-> <<>>]
    /\ saved = [p \in Syncers |-> <<>>]
    /\ processed = [p \in Syncers |-> <<>>]
    /\ filterCalls = [p \in Syncers |-> <<<<>>, <<>>>>]
    /\ failedFetch = [p \in Syncers |-> <<>>]
    /\ retFrom = [p \in Syncers |-> "none"]
    /\ pendingFailure = <<>>
    /\ failedToken = [p \in Syncers |-> <<>>]
    /\ calls = 0
    /\ lastSaver = NoProc

\* The client before any Sync() call.
SyncInit ==
    /\ syncingID = 0
    /\ NoSyncRunning

\* No checkpoint has been reported; the AppService has a websocket or not,
\* and one of the endpoints.
CheckpointInit ==
    /\ websocket \in BOOLEAN
    /\ endpoint \in Endpoints
    /\ callerPC = "idle"
    /\ cpPC = [d \in Dispatchers |-> "free"]
    /\ batch = [d \in Dispatchers |-> <<>>]
    /\ origin = [d \in Dispatchers |-> <<>>]
    /\ attempts = [d \in Dispatchers |-> <<>>]
    /\ result = [d \in Dispatchers |-> NoResult]

\* No MakeRequest call has been made.
RequestInit ==
    /\ mrPC = "idle"
    /\ mrCall = NoCall
    /\ mrResponse = NoResponse
    /\ mrReturn = NoReturnValue

\* The sync loop is modelled with no AppService at work and the requests
\* behind SyncRequest and CreateFilter reduced to their results.
Init ==
    /\ SyncInit
    /\ CheckpointInit
    /\ websocket = FALSE
    /\ endpoint = NoEndpoint
    /\ RequestInit

\* The checkpoints are modelled with no Sync() call made.
InitCheckpoints ==
    /\ SyncInit
    /\ storeNextBatch = 0
    /\ storeFilterID = 0
    /\ CheckpointInit
    /\ RequestInit

\* ------------------------------------------------- the syncingID mutex
\* syncingMutex.Lock()
Lock(p) ==
    /\ syncingMutex = NoProc
    /\ syncingMutex' = p

\* Mutant: the generation counter is not incremented.
IncrementBodyStuck(p) ==
    /\ syncingMutex = p
    /\ syncingID' = syncingID
    /\ syncingMutex' = NoProc

\* Mutant: the counter stays at its largest value instead of wrapping.
IncrementBodySaturates(p) ==
    /\ syncingMutex = p
    /\ syncingID' = IF syncingID = Wrap - 1 THEN syncingID ELSE syncingID + 1
    /\ syncingMutex' = NoProc

\* incrementSyncingID's body: cli.syncingID++, return cli.syncingID, and the
\* deferred Unlock.
IncrementBody(p) ==
    /\ syncingMutex = p
    /\ syncingID' = (syncingID + 1) % Wrap
    /\ syncingMutex' = NoProc

\* Mutant: getSyncingID returns without unlocking the mutex.
GetBodyKeepsLock(p) ==
    /\ syncingMutex = p
    /\ UNCHANGED <<syncingMutex, syncingID>>

\* getSyncingID's body: return cli.syncingID, and the deferred Unlock.
GetBody(p) ==
    /\ syncingMutex = p
    /\ syncingMutex' = NoProc
    /\ UNCHANGED syncingID

\* Sync's return statements: the goroutine ends, and a new Sync() call can
\* take its place.
Return(p, e) ==
    /\ ret' = [ret EXCEPT ![p] = e]
    /\ failedToken' = [failedToken EXCEPT ![p] = <<>>]
    /\ retFrom' = [retFrom EXCEPT ![p] = pc[p]]
    /\ pc' = [pc EXCEPT ![p] = "idle"]

\* ---------------------------------------------------------------- Sync
\* Sync() is called and enters incrementSyncingID, taking the mutex.  Its
\* locals and the history of the call start empty.
SyncCall(p) ==
    /\ pc[p] = "idle"
    /\ calls < MaxGen
    /\ calls' = calls + 1
    /\ Lock(p)
    /\ pc' = [pc EXCEPT ![p] = "sync_increment"]
    /\ loaded' = [loaded EXCEPT ![p] = <<0, 0>>]
    /\ fetched' = [fetched EXCEPT ![p] = <<>>]
    /\ saved' = [saved EXCEPT ![p] = <<>>]
    /\ processed' = [processed EXCEPT ![p] = <<>>]
    /\ filterCalls' = [filterCalls EXCEPT ![p] = <<<<>>, <<>>>>]
    /\ failedFetch' = [failedFetch EXCEPT ![p] = <<>>]
    /\ mySyncingID' = [mySyncingID EXCEPT ![p] = 0]
    /\ nextBatch' = [nextBatch EXCEPT ![p] = 0]
    /\ filterID' = [filterID EXCEPT ![p] = 0]
    /\ resSync' = [resSync EXCEPT ![p] = 0]
    /\ failedToken' = [failedToken EXCEPT ![p] = pendingFailure]
    /\ pendingFailure' = <<>>
    /\ UNCHANGED <<syncingID, store, stopPC, ret, retFrom>>
    /\ UNCHANGED <<checkpointing, requesting>>

\* syncingID := cli.incrementSyncingID()
SyncIncrement(p) ==
    /\ pc[p] = "sync_increment"
    /\ IncrementBody(p)
    /\ mySyncingID' = [mySyncingID EXCEPT ![p] = syncingID']
    /\ pc' = [pc EXCEPT ![p] = "load_next_batch"]
    /\ UNCHANGED <<store, stopPC, nextBatch, filterID, resSync, returned,
                   history, calls>>
    /\ UNCHANGED <<checkpointing, requesting>>

\* Mutant: the stored token is not loaded, the call starts from "".
LoadNextBatchEmpty(p) ==
    /\ pc[p] = "load_next_batch"
    /\ nextBatch' = [nextBatch EXCEPT ![p] = 0]
    /\ loaded' = [loaded EXCEPT ![p][1] = 0]
    /\ pc' = [pc EXCEPT ![p] = "load_filter_id"]
    /\ UNCHANGED <<generation, store, stopPC, mySyncingID, filterID, resSync,
                   returned, fetched, saved, processed, filterCalls,
                   failedFetch, calls>>
    /\ UNCHANGED <<checkpointing, requesting>>

\* nextBatch := cli.Store.LoadNextBatch(cli.UserID)
LoadNextBatch(p) ==
    /\ pc[p] = "load_next_batch"
    /\ nextBatch' = [nextBatch EXCEPT ![p] = storeNextBatch]
    /\ loaded' = [loaded EXCEPT ![p][1] = storeNextBatch]
    /\ pc' = [pc EXCEPT ![p] = "load_filter_id"]
    /\ UNCHANGED <<generation, store, stopPC, mySyncingID, filterID, resSync,
                   returned, fetched, saved, processed, filterCalls,
                   failedFetch, calls>>
    /\ UNCHANGED <<checkpointing, requesting>>

\* Mutant: a filter is created whether or not one is cached.
NeedsFilterAlways(f) == f = f

\* if filterID == ""
NeedsFilter(f) == f = 0

\* filterID := cli.Store.LoadFilterID(cli.UserID); if filterID == "" { ... }
LoadFilterID(p) ==
    /\ pc[p] = "load_filter_id"
    /\ filterID' = [filterID EXCEPT ![p] = storeFilterID]
    /\ loaded' = [loaded EXCEPT ![p][2] = storeFilterID]
    /\ pc' = [pc EXCEPT ![p] = IF NeedsFilter(storeFilterID)
                                  THEN "create_filter"
                                  ELSE "sync_request"]
    /\ UNCHANGED <<generation, store, stopPC, mySyncingID, nextBatch, resSync,
                   returned, fetched, saved, processed, filterCalls,
                   failedFetch, calls>>
    /\ UNCHANGED <<checkpointing, requesting>>

\* resFilter, err := cli.CreateFilter(filterJSON), err == nil;
\* filterID = resFilter.FilterID
CreateFilterOK(p) ==
    /\ pc[p] = "create_filter"
    /\ \E f \in FilterIDs :
          /\ filterID' = [filterID EXCEPT ![p] = f]
          /\ filterCalls' = [filterCalls EXCEPT ![p][1] = Append(@, f)]
    /\ pc' = [pc EXCEPT ![p] = "save_filter_id"]
    /\ UNCHANGED <<generation, store, stopPC, mySyncingID, nextBatch, resSync,
                   returned, loaded, fetched, saved, processed,
                   failedFetch, calls>>
    /\ UNCHANGED <<checkpointing, requesting>>

\* Mutant: a failed CreateFilter still writes its (empty) filter ID to the
\* store.
CreateFilterFailSaves(p) ==
    /\ pc[p] = "create_filter"
    /\ filterCalls' = [filterCalls EXCEPT ![p] = <<Append(@[1], 0),
                                                  Append(@[2], 0)>>]
    /\ storeFilterID' = 0
    /\ Return(p, ErrCreateFilter)
    /\ UNCHANGED <<pendingFailure, generation, storeNextBatch, lastSaver,
                   stopPC, locals, loaded, fetched, saved, processed,
                   failedFetch, calls>>
    /\ UNCHANGED <<checkpointing, requesting>>

\* Mutant: a Sync() call that fails on CreateFilter takes its increment of
\* the generation back.
CreateFilterFailRestores(p) ==
    /\ pc[p] = "create_filter"
    /\ filterCalls' = [filterCalls EXCEPT ![p][1] = Append(@, 0)]
    /\ Return(p, ErrCreateFilter)
    /\ syncingID' = (mySyncingID[p] + Wrap - 1) % Wrap
    /\ UNCHANGED <<pendingFailure, syncingMutex, store, stopPC, locals,
                   loaded, fetched, saved, processed, failedFetch, calls>>
    /\ UNCHANGED <<checkpointing, requesting>>

\* resFilter, err := cli.CreateFilter(filterJSON), err != nil: return err
CreateFilterFail(p) ==
    /\ pc[p] = "create_filter"
    /\ filterCalls' = [filterCalls EXCEPT ![p][1] = Append(@, 0)]
    /\ Return(p, ErrCreateFilter)
    /\ UNCHANGED <<pendingFailure, generation, store, stopPC, locals, loaded,
                   fetched, saved,
                   processed, failedFetch, calls>>
    /\ UNCHANGED <<checkpointing, requesting>>

\* cli.Store.SaveFilterID(cli.UserID, filterID)
SaveFilterID(p) ==
    /\ pc[p] = "save_filter_id"
    /\ storeFilterID' = filterID[p]
    /\ filterCalls' = [filterCalls EXCEPT ![p][2] = Append(@, filterID[p])]
    /\ pc' = [pc EXCEPT ![p] = "sync_request"]
    /\ UNCHANGED <<generation, storeNextBatch, lastSaver, stopPC, locals,
                   returned, loaded, fetched, saved, processed, failedFetch,
                   calls>>
    /\ UNCHANGED <<checkpointing, requesting>>

\* ------------------------------------------------------- the sync loop
\* The next_batch tokens a successful /sync with this since-token can return.
NextBatches(since) == {t \in Tokens : t > since}

\* The arguments of cli.SyncRequest(30000, nextBatch, filterID, false, ...)
SyncRequestArgs(p) == <<nextBatch[p], filterID[p]>>

\* What the history keeps of a failed fetch until it is retried: its
\* arguments, and how many saves and ProcessResponse calls preceded it.
FetchRecord(p) == <<SyncRequestArgs(p), Len(saved[p]), Len(processed[p])>>

\* resSync, err := cli.SyncRequest(...), err == nil
SyncRequestOK(p) ==
    /\ pc[p] = "sync_request"
    /\ \E nb \in NextBatches(SyncRequestArgs(p)[1]) :
          /\ resSync' = [resSync EXCEPT ![p] = nb]
          /\ fetched' = [fetched EXCEPT ![p] =
                Append(@, <<SyncRequestArgs(p)[1], SyncRequestArgs(p)[2], nb>>)]
    /\ failedFetch' = [failedFetch EXCEPT ![p] = <<>>]
    /\ failedToken' = [failedToken EXCEPT ![p] = <<>>]
    /\ pc' = [pc EXCEPT ![p] = "get_syncing_id"]
    /\ UNCHANGED <<generation, store, stopPC, mySyncingID, nextBatch, filterID,
                   ret, retFrom, pendingFailure, loaded, saved, processed,
                   filterCalls, calls>>
    /\ UNCHANGED <<checkpointing, requesting>>

\* resSync, err := cli.SyncRequest(...), err != nil
SyncRequestFail(p) ==
    /\ pc[p] = "sync_request"
    /\ failedFetch' = [failedFetch EXCEPT ![p] = FetchRecord(p)]
    /\ failedToken' = [failedToken EXCEPT ![p] = <<>>]
    /\ pc' = [pc EXCEPT ![p] = "on_failed_sync"]
    /\ UNCHANGED <<generation, store, stopPC, locals, ret, retFrom,
                   pendingFailure, loaded,
                   fetched, saved, processed, filterCalls, calls>>
    /\ UNCHANGED <<checkpointing, requesting>>

\* Mutant: a failed fetch ends the loop with the fetch's error.
OnFailedSyncGiveUp(p) ==
    /\ pc[p] = "on_failed_sync"
    /\ Return(p, ErrSyncRequest)
    /\ UNCHANGED <<pendingFailure, generation, store, stopPC, locals, history,
                   calls>>
    /\ UNCHANGED <<checkpointing, requesting>>

\* duration, err2 := cli.Syncer.OnFailedSync(resSync, err), err2 == nil
OnFailedSyncRetry(p) ==
    /\ pc[p] = "on_failed_sync"
    /\ pc' = [pc EXCEPT ![p] = "sleep"]
    /\ UNCHANGED <<generation, store, stopPC, locals, returned, history,
                   calls>>
    /\ UNCHANGED <<checkpointing, requesting>>

\* duration, err2 := cli.Syncer.OnFailedSync(resSync, err), err2 != nil:
\* return err2
OnFailedSyncError(p) ==
    /\ pc[p] = "on_failed_sync"
    /\ Return(p, ErrOnFailedSync)
    /\ UNCHANGED <<pendingFailure, generation, store, stopPC, locals, history,
                   calls>>
    /\ UNCHANGED <<checkpointing, requesting>>

\* Mutant: the retry starts over from the empty token.
SleepResetToken(p) ==
    /\ pc[p] = "sleep"
    /\ nextBatch' = [nextBatch EXCEPT ![p] = 0]
    /\ pc' = [pc EXCEPT ![p] = "sync_request"]
    /\ UNCHANGED <<generation, store, stopPC, mySyncingID, filterID, resSync,
                   returned, history, calls>>
    /\ UNCHANGED <<checkpointing, requesting>>

\* Mutant: after the sleep a superseded cycle returns nil.
SleepChecksGeneration(p) ==
    /\ pc[p] = "sleep"
    /\ IF syncingID # mySyncingID[p]
          THEN Return(p, ErrNone)
          ELSE /\ pc' = [pc EXCEPT ![p] = "sync_request"]
               /\ UNCHANGED <<ret, retFrom, failedToken>>
    /\ UNCHANGED <<pendingFailure, generation, store, stopPC, locals,
                   history, calls>>
    /\ UNCHANGED <<checkpointing, requesting>>

\* time.Sleep(duration); continue
Sleep(p) ==
    /\ pc[p] = "sleep"
    /\ pc' = [pc EXCEPT ![p] = "sync_request"]
    /\ UNCHANGED <<generation, store, stopPC, locals, returned, history,
                   calls>>
    /\ UNCHANGED <<checkpointing, requesting>>

\* cli.getSyncingID() is entered: the mutex is taken.
GetSyncingIDLock(p) ==
    /\ pc[p] = "get_syncing_id"
    /\ Lock(p)
    /\ pc' = [pc EXCEPT ![p] = "check_syncing_id"]
    /\ UNCHANGED <<syncingID, store, stopPC, locals, returned, history,
                   calls>>
    /\ UNCHANGED <<checkpointing, requesting>>

\* cli.getSyncingID() != syncingID
Superseded(p) == syncingID # mySyncingID[p]

\* Mutant: the generation check never stops the cycle.
CheckSyncingIDIgnored(p) ==
    /\ pc[p] = "check_syncing_id"
    /\ GetBody(p)
    /\ pc' = [pc EXCEPT ![p] = "save_next_batch"]
    /\ UNCHANGED <<returned, store, stopPC, locals, history, calls>>
    /\ UNCHANGED <<checkpointing, requesting>>

\* if cli.getSyncingID() != syncingID { return nil }
CheckSyncingID(p) ==
    /\ pc[p] = "check_syncing_id"
    /\ GetBody(p)
    /\ IF Superseded(p)
          THEN Return(p, ErrNone)
          ELSE /\ pc' = [pc EXCEPT ![p] = "save_next_batch"]
               /\ UNCHANGED <<ret, retFrom, failedToken>>
    /\ UNCHANGED <<pendingFailure, store, stopPC, locals, history, calls>>
    /\ UNCHANGED <<checkpointing, requesting>>

\* A recorded ProcessResponse failure, marked as followed by a save.
Dirty(f) == IF f = <<>> THEN f ELSE <<f[1], TRUE>>

\* Mutant: the token is not saved before ProcessResponse is invoked.
SaveNextBatchSkipped(p) ==
    /\ pc[p] = "save_next_batch"
    /\ pc' = [pc EXCEPT ![p] = "process_response"]
    /\ UNCHANGED <<generation, store, stopPC, locals, returned, history,
                   calls>>
    /\ UNCHANGED <<checkpointing, requesting>>

\* cli.Store.SaveNextBatch(cli.UserID, resSync.NextBatch)
SaveNextBatch(p) ==
    /\ pc[p] = "save_next_batch"
    /\ storeNextBatch' = resSync[p]
    /\ lastSaver' = p
    /\ saved' = [saved EXCEPT ![p] = Append(@, resSync[p])]
    /\ pendingFailure' = Dirty(pendingFailure)
    /\ failedToken' = [q \in Syncers |->
                          IF pc[q] \in {"sync_increment", "load_next_batch"}
                             THEN Dirty(failedToken[q])
                             ELSE failedToken[q]]
    /\ pc' = [pc EXCEPT ![p] = "process_response"]
    /\ UNCHANGED <<generation, storeFilterID, stopPC, locals, ret, retFrom,
                   loaded, fetched, processed, filterCalls, failedFetch,
                   calls>>
    /\ UNCHANGED <<checkpointing, requesting>>

\* Mutant: ProcessResponse gets the new token as its since argument.
ProcessResponseArgsNewSince(p) == <<resSync[p], resSync[p]>>

\* The arguments of cli.Syncer.ProcessResponse(resSync, nextBatch), the
\* payload named by its next_batch: <<since, next_batch>>
ProcessResponseArgs(p) == <<nextBatch[p], resSync[p]>>

\* err = cli.Syncer.ProcessResponse(resSync, nextBatch), err == nil;
\* nextBatch = resSync.NextBatch
ProcessResponseOK(p) ==
    /\ pc[p] = "process_response"
    /\ processed' = [processed EXCEPT ![p] = Append(@, ProcessResponseArgs(p))]
    /\ nextBatch' = [nextBatch EXCEPT ![p] = resSync[p]]
    /\ pc' = [pc EXCEPT ![p] = "sync_request"]
    /\ UNCHANGED <<generation, store, stopPC, mySyncingID, filterID, resSync,
                   returned, loaded, fetched, saved, filterCalls,
                   failedFetch, calls>>
    /\ UNCHANGED <<checkpointing, requesting>>

\* err = cli.Syncer.ProcessResponse(resSync, nextBatch), err != nil: return err
ProcessResponseError(p) ==
    /\ pc[p] = "process_response"
    /\ processed' = [processed EXCEPT ![p] = Append(@, ProcessResponseArgs(p))]
    /\ Return(p, ErrProcessResponse)
    /\ pendingFailure' = <<resSync[p], lastSaver # p>>
    /\ UNCHANGED <<generation, store, stopPC, locals, loaded, fetched, saved,
                   filterCalls, failedFetch, calls>>
    /\ UNCHANGED <<checkpointing, requesting>>

\* ------------------------------------------------------------ StopSync
\* StopSync() is called and enters incrementSyncingID, taking the mutex.
StopSyncCall ==
    /\ stopPC = "idle"
    /\ calls < MaxGen
    /\ calls' = calls + 1
    /\ Lock(Controller)
    /\ stopPC' = "stop_increment"
    /\ UNCHANGED <<syncingID, store, pc, locals, returned, history>>
    /\ UNCHANGED <<checkpointing, requesting>>

\* Mutant: StopSync also forgets the stored token.
StopSyncIncrementReset ==
    /\ stopPC = "stop_increment"
    /\ IncrementBody(Controller)
    /\ stopPC' = "idle"
    /\ storeNextBatch' = 0
    /\ UNCHANGED <<storeFilterID, lastSaver, pc, locals, returned, history,
                   calls>>
    /\ UNCHANGED <<checkpointing, requesting>>

\* cli.incrementSyncingID(), the result dropped; StopSync returns.
StopSyncIncrement ==
    /\ stopPC = "stop_increment"
    /\ IncrementBody(Controller)
    /\ stopPC' = "idle"
    /\ UNCHANGED <<store, pc, locals, returned, history, calls>>
    /\ UNCHANGED <<checkpointing, requesting>>

\* ------------------------------------------------------- specification
Step(p) ==
    \/ SyncCall(p)
    \/ SyncIncrement(p)
    \/ LoadNextBatch(p)
    \/ LoadFilterID(p)
    \/ CreateFilterOK(p)
    \/ CreateFilterFail(p)
    \/ SaveFilterID(p)
    \/ SyncRequestOK(p)
    \/ SyncRequestFail(p)
    \/ OnFailedSyncRetry(p)
    \/ OnFailedSyncError(p)
    \/ Sleep(p)
    \/ GetSyncingIDLock(p)
    \/ CheckSyncingID(p)
    \/ SaveNextBatch(p)
    \/ ProcessResponseOK(p)
    \/ ProcessResponseError(p)

Next ==
    \/ \E p \in Syncers : Step(p)
    \/ StopSyncCall
    \/ StopSyncIncrement

Spec == Init /\ [][Next]_vars

\* A Sync() call that has been made keeps running: the scheduler is fair to
\* its goroutine, and every call it makes returns (with a result or an error,
\* as the callee decides).  Nothing obliges a caller to call Sync or StopSync.
Cycle(p) == pc[p] # "idle" /\ Step(p)

Fairness ==
    /\ \A p \in Syncers : WF_vars(Cycle(p))
    /\ WF_vars(StopSyncIncrement)

FairSpec == Spec /\ Fairness

\* ------------------------------------------------ delivery checkpoints
\* `go checkpoint.Send(as)`: a goroutine d starts on Send(checkpoint), that
\* is on SendCheckpoints(as, []*MessageSendCheckpoint{checkpoint}).
Go(d, call, checkpoints) ==
    /\ cpPC[d] = "free"
    /\ cpPC' = [cpPC EXCEPT ![d] = "send_checkpoints"]
    /\ batch' = [batch EXCEPT ![d] = checkpoints]
    /\ origin' = [origin EXCEPT ![d] = call]
    /\ UNCHANGED <<attempts, result>>

\* as.SendMessageSendCheckpoint(evt, step), up to the go statement.
SendMessageSendCheckpoint(d, evt, step) ==
    /\ callerPC = "idle"
    /\ Go(d, <<"SendMessageSendCheckpoint", evt, step>>,
          Send(SuccessCheckpoint(evt, step)))
    /\ callerPC' = "go"
    /\ UNCHANGED <<websocket, endpoint, syncing, requesting>>

\* as.SendErrorMessageSendCheckpoint(evt, step, err, permanent), up to the
\* go statement.
SendErrorMessageSendCheckpoint(d, evt, step, err, permanent) ==
    /\ callerPC = "idle"
    /\ Go(d, <<"SendErrorMessageSendCheckpoint", evt, step, err, permanent>>,
          Send(ErrorCheckpoint(evt, step, err, permanent)))
    /\ callerPC' = "go"
    /\ UNCHANGED <<websocket, endpoint, syncing, requesting>>

\* Mutant: the sender returns only when every dispatch has returned.
SenderReturnsAfterDispatch ==
    /\ callerPC = "go"
    /\ \A d \in Dispatchers : cpPC[d] \in {"free", "done"}
    /\ callerPC' = "idle"
    /\ UNCHANGED <<websocket, endpoint, cpPC, batch, origin, attempts,
                   result, syncing, requesting>>

\* The sender returns: nothing follows its go statement.
SenderReturns ==
    /\ callerPC = "go"
    /\ callerPC' = "idle"
    /\ UNCHANGED <<websocket, endpoint, cpPC, batch, origin, attempts,
                   result, syncing, requesting>>

\* SendCheckpoints(as, checkpoints) called with a batch, on the caller's own
\* goroutine d.
SendCheckpointsCall(d, checkpoints) ==
    /\ Go(d, <<"SendCheckpoints">>, checkpoints)
    /\ UNCHANGED <<websocket, endpoint, callerPC, syncing, requesting>>

\* SendCheckpoints returns e.
CheckpointsReturn(d, e) ==
    /\ result' = [result EXCEPT ![d] = e]
    /\ cpPC' = [cpPC EXCEPT ![d] = "done"]

\* A delivery attempt is added to those of d's call.
Attempt(d, a) == attempts' = [attempts EXCEPT ![d] = Append(@, a)]

\* Mutant: an empty endpoint is posted to like any other.
SelectSinkIgnoresNoEndpoint(d) ==
    /\ cpPC[d] = "send_checkpoints"
    /\ cpPC' = [cpPC EXCEPT ![d] = IF websocket THEN "send_websocket"
                                                ELSE "new_request"]
    /\ UNCHANGED <<websocket, endpoint, callerPC, batch, origin, attempts,
                   result, syncing, requesting>>

\* if as.HasWebsocket() { ... }; if as.MessageSendCheckpointEndpoint == ""
\* { return nil }
SelectSink(d) ==
    /\ cpPC[d] = "send_checkpoints"
    /\ IF websocket
          THEN /\ cpPC' = [cpPC EXCEPT ![d] = "send_websocket"]
               /\ UNCHANGED result
          ELSE IF endpoint = NoEndpoint
                  THEN CheckpointsReturn(d, ErrNone)
                  ELSE /\ cpPC' = [cpPC EXCEPT ![d] = "new_request"]
                       /\ UNCHANGED result
    /\ UNCHANGED <<websocket, endpoint, callerPC, batch, origin, attempts,
                   syncing, requesting>>

\* The command SendCheckpoints hands to as.SendWebsocket.
WebsocketRequest(d) ==
    [Command |-> "message_checkpoint", Data |-> CheckpointsJSON(batch[d])]

\* Mutant: a failed websocket send falls back to the HTTP endpoint.
SendWebsocketFailFallsBack(d) ==
    /\ cpPC[d] = "send_websocket"
    /\ Attempt(d, [sink |-> "websocket", request |-> WebsocketRequest(d),
                   outcome |-> ErrWebsocket])
    /\ cpPC' = [cpPC EXCEPT ![d] = "new_request"]
    /\ UNCHANGED <<websocket, endpoint, callerPC, batch, origin, result,
                   syncing, requesting>>

\* return as.SendWebsocket(&WebsocketRequest{...}): the send succeeds (the
\* websocket is still established).
SendWebsocketOK(d) ==
    /\ cpPC[d] = "send_websocket"
    /\ websocket
    /\ Attempt(d, [sink |-> "websocket", request |-> WebsocketRequest(d),
                   outcome |-> ErrNone])
    /\ CheckpointsReturn(d, ErrNone)
    /\ UNCHANGED <<websocket, endpoint, callerPC, batch, origin, syncing,
                   requesting>>

\* return as.SendWebsocket(&WebsocketRequest{...}): the send fails.
SendWebsocketFail(d) ==
    /\ cpPC[d] = "send_websocket"
    /\ Attempt(d, [sink |-> "websocket", request |-> WebsocketRequest(d),
                   outcome |-> ErrWebsocket])
    /\ CheckpointsReturn(d, ErrWebsocket)
    /\ UNCHANGED <<websocket, endpoint, callerPC, batch, origin, syncing,
                   requesting>>

\* The body is encoded and the request built with its headers; either can
\* fail, and then SendCheckpoints returns the error.
BuildRequest(d) ==
    /\ cpPC[d] = "new_request"
    /\ IF ~Encodable(CheckpointsJSON(batch[d]))
          THEN CheckpointsReturn(d, ErrEncode)
          ELSE IF endpoint = BadEndpoint
                  THEN CheckpointsReturn(d, ErrNewRequest)
                  ELSE /\ cpPC' = [cpPC EXCEPT ![d] = "do"]
                       /\ UNCHANGED result
    /\ UNCHANGED <<websocket, endpoint, callerPC, batch, origin, attempts,
                   syncing, requesting>>

\* The request of d's call: POST to the endpoint, the encoded envelope as
\* its body.
Request(d) == NewRequest(endpoint, Encode(CheckpointsJSON(batch[d])))

\* http.DefaultClient.Do(req) is called: the POST is under way, for at most
\* the 5 seconds of its context.
Do(d) ==
    /\ cpPC[d] = "do"
    /\ Attempt(d, [sink |-> "http", request |-> Request(d),
                   outcome |-> "in flight", status |-> NoStatus])
    /\ cpPC' = [cpPC EXCEPT ![d] = "await_response"]
    /\ UNCHANGED <<websocket, endpoint, callerPC, batch, origin, result,
                   syncing, requesting>>

\* The outcome of the attempt under way is recorded: a response with its
\* status code, or the transport's error.
Outcome(d, o, code) ==
    attempts' = [attempts EXCEPT ![d][Len(attempts[d])].outcome = o,
                                 ![d][Len(attempts[d])].status = code]

\* Mutant: an unexpected status makes SendCheckpoints post again.
DoResponseRetries(d, code) ==
    /\ cpPC[d] = "await_response"
    /\ Outcome(d, "response", code)
    /\ IF UnexpectedStatus(code)
          THEN /\ cpPC' = [cpPC EXCEPT ![d] = "do"]
               /\ UNCHANGED result
          ELSE CheckpointsReturn(d, ErrNone)
    /\ UNCHANGED <<websocket, endpoint, callerPC, batch, origin, syncing,
                   requesting>>

\* Mutant: only a server error (5xx) is reported.
DoResponseLenient(d, code) ==
    /\ cpPC[d] = "await_response"
    /\ Outcome(d, "response", code)
    /\ CheckpointsReturn(d, IF code >= 500 THEN ErrStatus ELSE ErrNone)
    /\ UNCHANGED <<websocket, endpoint, callerPC, batch, origin, syncing,
                   requesting>>

\* resp, err := http.DefaultClient.Do(req), err == nil: a response with
\* this status code; outside 200..299 it is an error.
DoResponse(d, code) ==
    /\ cpPC[d] = "await_response"
    /\ Outcome(d, "response", code)
    /\ CheckpointsReturn(d, IF UnexpectedStatus(code) THEN ErrStatus
                                                       ELSE ErrNone)
    /\ UNCHANGED <<websocket, endpoint, callerPC, batch, origin, syncing,
                   requesting>>

\* resp, err := http.DefaultClient.Do(req), err != nil: no response (the
\* connection failed, or the 5 seconds are over).
DoError(d) ==
    /\ cpPC[d] = "await_response"
    /\ Outcome(d, ErrDo, NoStatus)
    /\ CheckpointsReturn(d, ErrDo)
    /\ UNCHANGED <<websocket, endpoint, callerPC, batch, origin, syncing,
                   requesting>>

\* The goroutine ends (the result of a `go checkpoint.Send(as)` is dropped);
\* d can run another dispatch.
Exit(d) ==
    /\ cpPC[d] = "done"
    /\ cpPC' = [cpPC EXCEPT ![d] = "free"]
    /\ batch' = [batch EXCEPT ![d] = <<>>]
    /\ origin' = [origin EXCEPT ![d] = <<>>]
    /\ attempts' = [attempts EXCEPT ![d] = <<>>]
    /\ result' = [result EXCEPT ![d] = NoResult]
    /\ UNCHANGED <<websocket, endpoint, callerPC, syncing, requesting>>

\* The websocket to the collector is established, or lost.
WebsocketConnects ==
    /\ ~websocket
    /\ websocket' = TRUE
    /\ UNCHANGED <<endpoint, callerPC, cpPC, batch, origin, attempts,
                   result, syncing, requesting>>

WebsocketCloses ==
    /\ websocket
    /\ websocket' = FALSE
    /\ UNCHANGED <<endpoint, callerPC, cpPC, batch, origin, attempts,
                   result, syncing, requesting>>

Dispatch(d) ==
    \/ SelectSink(d)
    \/ SendWebsocketOK(d)
    \/ SendWebsocketFail(d)
    \/ BuildRequest(d)
    \/ Do(d)
    \/ \E code \in StatusCodes : DoResponse(d, code)
    \/ DoError(d)
    \/ Exit(d)

NextCheckpoints ==
    \/ \E d \in Dispatchers, evt \in Events, step \in Steps :
          SendMessageSendCheckpoint(d, evt, step)
    \/ \E d \in Dispatchers, evt \in Events, step \in Steps,
            err \in Errors, permanent \in BOOLEAN :
          SendErrorMessageSendCheckpoint(d, evt, step, err, permanent)
    \/ SenderReturns
    \/ \E d \in Dispatchers, checkpoints \in Batches :
          SendCheckpointsCall(d, checkpoints)
    \/ \E d \in Dispatchers : Dispatch(d)
    \/ WebsocketConnects
    \/ WebsocketCloses

CheckpointSpec == InitCheckpoints /\ [][NextCheckpoints]_vars

\* The sync loop of a client on which StopSync() has returned Wrap - 2
\* times: two more increments take syncingID past the largest value.
InitWrap ==
    /\ syncingID = Wrap - 2
    /\ NoSyncRunning
    /\ CheckpointInit
    /\ websocket = FALSE
    /\ endpoint = NoEndpoint
    /\ RequestInit

WrapSpec == InitWrap /\ [][Next]_vars

\* ---------------------------------------------------- MakeRequest
\* cli.MakeRequest(method, httpURL, reqBody, resBody), up to cli.Client.Do:
\* the call returns at once when the body does not marshal or the request
\* cannot be built.
MakeRequestCall(method, httpURL, reqBody, resBody) ==
    /\ mrPC = "idle"
    /\ mrCall' = [method |-> method, httpURL |-> httpURL,
                  reqBody |-> reqBody, resBody |-> resBody,
                  req |-> IF reqBody = [marshals |-> FALSE]
                             \/ ~httpURL.parses
                          THEN Nil
                          ELSE HTTPRequest(method, httpURL, reqBody)]
    /\ IF reqBody = [marshals |-> FALSE]
       THEN /\ mrReturn' = Returns(Nil, MarshalError)
            /\ mrPC' = "done"
       ELSE IF ~httpURL.parses
       THEN /\ mrReturn' = Returns(Nil, NewRequestError)
            /\ mrPC' = "done"
       ELSE /\ mrPC' = "do"
            /\ UNCHANGED mrReturn
    /\ UNCHANGED <<mrResponse, syncing, checkpointing>>

\* cli.Client.Do(req) fails: return nil, err.
DoFails ==
    /\ mrPC = "do"
    /\ mrReturn' = Returns(Nil, ClientDoError)
    /\ mrPC' = "done"
    /\ UNCHANGED <<mrCall, mrResponse, syncing, checkpointing>>

\* cli.Client.Do(req) returns a response with some status and body.
DoResponds(code, body) ==
    /\ mrPC = "do"
    /\ mrResponse' = [StatusCode |-> code, Body |-> body,
                      contents |-> <<>>, readFailed |-> FALSE]
    /\ mrPC' = "read_all"
    /\ UNCHANGED <<mrCall, mrReturn, syncing, checkpointing>>

\* contents, err := ioutil.ReadAll(res.Body): the whole body, or the part
\* of it read before an error.
ReadAll(n, failed) ==
    /\ mrPC = "read_all"
    /\ n \in 0..Len(mrResponse.Body)
    /\ n < Len(mrResponse.Body) => failed
    /\ mrResponse' = [mrResponse EXCEPT
                         !.contents = SubSeq(mrResponse.Body, 1, n),
                         !.readFailed = failed]
    /\ mrPC' = "respond"
    /\ UNCHANGED <<mrCall, mrReturn, syncing, checkpointing>>

\* The rest of MakeRequest: the HTTPError of a response that is not 2xx,
\* else the read error, else the decoding of the body into resBody.
Respond ==
    /\ mrPC = "respond"
    /\ mrReturn' =
          IF mrResponse.StatusCode \div 100 # 2
          THEN Returns(Bytes(mrResponse.contents),
                       HTTPError(mrCall.method, mrCall.req.Path,
                                 mrResponse.StatusCode, mrResponse.contents))
          ELSE IF mrResponse.readFailed
          THEN Returns(Nil, ReadAllError)
          ELSE IF mrCall.resBody # Nil /\ ~ValidJSON(mrResponse.contents)
          THEN Returns(Nil, UnmarshalError)
          ELSE Returns(Bytes(mrResponse.contents), NilError)
    /\ mrPC' = "done"
    /\ UNCHANGED <<mrCall, mrResponse, syncing, checkpointing>>

NextRequests ==
    \/ \E method \in Methods, httpURL \in URLs, reqBody \in ReqBodies,
          resBody \in ResBodies :
          MakeRequestCall(method, httpURL, reqBody, resBody)
    \/ DoFails
    \/ \E code \in ResponseCodes, body \in ResponseBodies :
          DoResponds(code, body)
    \/ \E n \in 0..6, failed \in BOOLEAN : ReadAll(n, failed)
    \/ Respond

\* MakeRequest is modelled on its own: no Sync() call, no checkpoint.
InitRequests ==
    /\ SyncInit
    /\ storeNextBatch = 0
    /\ storeFilterID = 0
    /\ CheckpointInit
    /\ websocket = FALSE
    /\ endpoint = NoEndpoint
    /\ RequestInit

RequestSpec == InitRequests /\ [][NextRequests]_vars

\* ---------------------------------------------------- claim vocabulary
Last(s) == s[Len(s)]

\* p's Sync call has captured its generation and has not returned.
Running(p) == pc[p] \notin {"idle", "sync_increment"}

\* A running cycle whose captured generation is the client's current one.
Live(p) == Running(p) /\ ~Superseded(p)

\* p's last Sync call returned ProcessResponse's error and p has not called
\* Sync again.
FailedInProcess(p) == pc[p] = "idle" /\ retFrom[p] = "process_response"

\* The token sequence T0, T1, ... of p's call: the loaded token, then the
\* next_batch of each successful fetch.
T(p, k) == IF k = 0 THEN loaded[p][1] ELSE fetched[p][k][3]

\* ------------------------------------------------------------------ C1
\* C1 as stated: whenever ProcessResponse is running on a payload, the
\* store holds that payload's next_batch token.
C1_StoreHoldsToken ==
    \A p \in Syncers :
        pc[p] = "process_response" => storeNextBatch = resSync[p]

\* C1, amended: whenever ProcessResponse is running (or has failed) on a
\* payload, the cycle has already called SaveNextBatch with that payload's
\* next_batch token, once per payload fetched, and the store holds that token
\* unless another cycle has saved since.
C1_SavedBeforeProcess ==
    \A p \in Syncers :
        (pc[p] = "process_response" \/ FailedInProcess(p)) =>
            /\ saved[p] # <<>>
            /\ Last(saved[p]) = resSync[p]
            /\ Len(saved[p]) = Len(fetched[p])
            /\ lastSaver = p => storeNextBatch = resSync[p]

\* ProcessResponse is running on the second payload of a cycle.
C1_Witness ==
    \E p \in Syncers : pc[p] = "process_response" /\ Len(saved[p]) = 2

\* ------------------------------------------------------------------ C2
\* C2: in a run that has not been superseded, with tokens T0 (loaded), T1,
\* T2, ... (fetched): the k-th fetch asks for since = T(k-1), the saves are
\* T1, T2, ... in that order, the k-th ProcessResponse call gets the k-th
\* payload with since = T(k-1), and between two fetches every payload
\* fetched has been saved once and processed once.
C2_OrderedExactlyOnce ==
    \A p \in Syncers :
        Live(p) =>
            /\ \A k \in 1 .. Len(fetched[p]) : fetched[p][k][1] = T(p, k - 1)
            /\ Len(saved[p]) <= Len(fetched[p])
            /\ \A k \in 1 .. Len(saved[p]) : saved[p][k] = T(p, k)
            /\ Len(processed[p]) <= Len(saved[p])
            /\ \A k \in 1 .. Len(processed[p]) :
                  processed[p][k] = <<T(p, k - 1), T(p, k)>>
            /\ pc[p] \in {"sync_request", "on_failed_sync", "sleep"} =>
                  /\ Len(saved[p]) = Len(fetched[p])
                  /\ Len(processed[p]) = Len(fetched[p])
            /\ pc[p] = "process_response" =>
                  /\ Len(saved[p]) = Len(fetched[p])
                  /\ Len(processed[p]) = Len(fetched[p]) - 1

\* A live cycle has fetched, saved and processed two payloads.
C2_Witness ==
    \E p \in Syncers :
        Live(p) /\ pc[p] = "sync_request" /\ Len(processed[p]) = 2

\* ------------------------------------------------------------------ C3
\* C3 as stated: when ProcessResponse failed on the payload with next_batch
\* T(k), the next Sync() call issues its first fetch with since = T(k).
C3_RestartFetchesFailedToken ==
    \A p \in Syncers :
        (pc[p] = "sync_request" /\ failedToken[p] # <<>>) =>
            nextBatch[p] = failedToken[p][1]

\* C3, amended: when ProcessResponse fails on the payload with next_batch
\* T(k), Sync returns that error and the cycle has already saved T(k); as long
\* as no cycle has saved a token since, the store holds T(k) and the next
\* Sync() call issues its first fetch with since = T(k).
C3_FailedTokenPersisted ==
    \A p \in Syncers :
        /\ FailedInProcess(p) =>
              /\ ret[p] = ErrProcessResponse
              /\ Last(saved[p]) = resSync[p]
              /\ Last(processed[p])[2] = resSync[p]
              /\ lastSaver = p => storeNextBatch = resSync[p]
        /\ (pendingFailure # <<>> /\ ~pendingFailure[2]) =>
              storeNextBatch = pendingFailure[1]
        /\ (pc[p] = "sync_request" /\ failedToken[p] # <<>>
                /\ ~failedToken[p][2]) =>
              /\ nextBatch[p] = failedToken[p][1]
              /\ fetched[p] = <<>>

\* The Sync() call that follows a ProcessResponse failure is about to issue
\* its first fetch, no cycle having saved between the failure and its load.
C3_Witness ==
    \E p \in Syncers :
        /\ pc[p] = "sync_request"
        /\ failedToken[p] # <<>>
        /\ ~failedToken[p][2]

\* ------------------------------------------------------------------ C4
\* The cycles that are live.
LiveCycles == {p \in Syncers : Live(p)}

\* A cycle that has its fetch behind it or in flight, up to the generation
\* check.
AtFetch(p) ==
    pc[p] \in {"sync_request", "on_failed_sync", "sleep", "get_syncing_id",
               "check_syncing_id"}

\* C4: when a Sync() call takes its generation (after a StopSync() or not),
\* it is the one live cycle; a cycle superseded while its fetch is in flight
\* calls neither SaveNextBatch nor ProcessResponse any more, and once the
\* fetch has returned a payload its generation check makes it return nil,
\* the store untouched.
C4_OneLiveEarlierExits ==
    [][\A p \in Syncers :
          /\ (pc[p] = "sync_increment" /\ pc'[p] = "load_next_batch") =>
                LiveCycles' = {p}
          /\ (Superseded(p) /\ AtFetch(p)) =>
                /\ saved'[p] = saved[p]
                /\ processed'[p] = processed[p]
                /\ pc'[p] = "idle" \/ AtFetch(p)'
                /\ lastSaver' = p => lastSaver = p
          /\ (Superseded(p) /\ pc[p] = "get_syncing_id" /\ pc'[p] # pc[p]) =>
                pc'[p] = "check_syncing_id"
          /\ (Superseded(p) /\ pc[p] = "check_syncing_id"
                  /\ pc'[p] # pc[p]) =>
                /\ pc'[p] = "idle"
                /\ ret'[p] = ErrNone
                /\ store' = store]_vars

\* An earlier cycle is running when StopSync() and then Sync() are called:
\* the new cycle is the live one, and the earlier cycle's fetch has returned
\* a payload that it has neither saved nor processed.
C4_Witness ==
    \E p, q \in Syncers :
        /\ p # q
        /\ calls = 3
        /\ ret[p] = NoReturn /\ ret[q] = NoReturn
        /\ stopPC = "idle"
        /\ Live(q)
        /\ pc[p] = "check_syncing_id"
        /\ mySyncingID[p] = 1 /\ mySyncingID[q] = 3
        /\ Len(fetched[p]) = 2
        /\ Len(saved[p]) = 1

C6_SupersededTerminates ==
    \A p \in Syncers : (Running(p) /\ Superseded(p)) ~> (pc[p] = "idle")

\* ------------------------------------------------------------------ C7
\* C7: a Sync() call that returns after a second Sync() call has taken a
\* newer generation returns nil.
C7_SupersededReturnsNil ==
    [][\A p \in Syncers :
          (/\ Running(p)
           /\ Superseded(p)
           /\ \E q \in Syncers \ {p} : Live(q)
           /\ pc'[p] = "idle") => ret'[p] = ErrNone]_vars

\* ------------------------------------------------------------------ C8
\* A fetch of p's has failed and has not been re-issued with success.
Retrying(p) ==
    \/ pc[p] \in {"on_failed_sync", "sleep"}
    \/ pc[p] = "sync_request" /\ failedFetch[p] # <<>>

\* C8: from a failed fetch to its retry (OnFailedSync, the sleep, the fetch
\* re-issued) the since-token and the filter ID are those of the failed
\* fetch, and the cycle has made no SaveNextBatch and no ProcessResponse call:
\* the token is the one of the last payload processed, or the loaded one.
C8_RetrySameToken ==
    \A p \in Syncers :
        Retrying(p) =>
            /\ failedFetch[p] = FetchRecord(p)
            /\ failedFetch[p][1] = <<T(p, Len(fetched[p])), filterID[p]>>
            /\ Len(saved[p]) = Len(fetched[p])
            /\ Len(processed[p]) = Len(fetched[p])

\* A cycle that has processed a payload re-issues a failed fetch after the
\* sleep.
C8_Witness ==
    \E p \in Syncers :
        /\ pc[p] = "sync_request"
        /\ failedFetch[p] # <<>>
        /\ Len(processed[p]) = 1
        /\ nextBatch[p] # 0

\* ------------------------------------------------------------------ C9
\* The statements of Sync that return a non-nil error, with the error each
\* returns.
FatalReturns ==
    {<<"create_filter", ErrCreateFilter>>,
     <<"on_failed_sync", ErrOnFailedSync>>,
     <<"process_response", ErrProcessResponse>>}

\* C9: a Sync() call that has returned a non-nil error returned it from a
\* failed CreateFilter, from OnFailedSync's error after a failed fetch or
\* from ProcessResponse's error, and returned that very error; every other
\* return is the generation check's nil; and a cycle whose fetch has failed
\* has not returned unless OnFailedSync returned an error.
C9_FatalErrors ==
    \A p \in Syncers :
        /\ ret[p] # NoReturn =>
              /\ ret[p] # ErrNone <=> <<retFrom[p], ret[p]>> \in FatalReturns
              /\ ret[p] = ErrNone <=> retFrom[p] = "check_syncing_id"
              /\ ret[p] # ErrSyncRequest
        /\ pc[p] = "idle" =>
              /\ retFrom[p] = "create_filter" =>
                    filterCalls[p] = <<<<0>>, <<>>>> /\ fetched[p] = <<>>
              /\ retFrom[p] = "on_failed_sync" => failedFetch[p] # <<>>
              /\ retFrom[p] = "process_response" =>
                    Len(processed[p]) = Len(fetched[p])
              /\ failedFetch[p] # <<>> => retFrom[p] = "on_failed_sync"

\* Both cycles have returned, one with OnFailedSync's error for a fetch that
\* failed after a payload was processed, the other with ProcessResponse's
\* error.
C9_Witness ==
    \E p, q \in Syncers :
        /\ pc[p] = "idle" /\ ret[p] = ErrOnFailedSync
        /\ Len(processed[p]) = 1
        /\ pc[q] = "idle" /\ ret[q] = ErrProcessResponse

\* ----------------------------------------------------------------- C10
\* p's Sync call has resolved its filter: it is in the loop, or has returned
\* from it.
FilterResolved(p) ==
    \/ pc[p] \in {"sync_request", "on_failed_sync", "sleep", "get_syncing_id",
                  "check_syncing_id", "save_next_batch", "process_response"}
    \/ pc[p] = "idle" /\ retFrom[p] \in {"on_failed_sync", "check_syncing_id",
                                          "process_response"}

\* C10: CreateFilter is called if and only if LoadFilterID returned "", and
\* once; the ID it returned is the one given to SaveFilterID, once; with a
\* cached ID neither is called; nothing is fetched before the filter is
\* resolved, and every fetch of the cycle uses the resolved ID.
C10_FilterResolvedOnce ==
    \A p \in Syncers :
        /\ FilterResolved(p) =>
              /\ filterCalls[p] =
                    IF loaded[p][2] = 0
                       THEN <<<<filterID[p]>>, <<filterID[p]>>>>
                       ELSE <<<<>>, <<>>>>
              /\ loaded[p][2] # 0 => filterID[p] = loaded[p][2]
              /\ filterID[p] \in FilterIDs
              /\ \A k \in 1 .. Len(fetched[p]) : fetched[p][k][2] = filterID[p]
        /\ pc[p] = "create_filter" =>
              /\ loaded[p][2] = 0
              /\ filterCalls[p] = <<<<>>, <<>>>>
              /\ fetched[p] = <<>>
        /\ pc[p] = "save_filter_id" =>
              /\ loaded[p][2] = 0
              /\ filterCalls[p] = <<<<filterID[p]>>, <<>>>>
              /\ fetched[p] = <<>>

\* One cycle has created and saved its filter and fetched twice with it,
\* while another runs on the cached ID.
C10_Witness ==
    \E p, q \in Syncers :
        /\ pc[p] = "sync_request"
        /\ loaded[p][2] = 0
        /\ Len(fetched[p]) = 2
        /\ FilterResolved(q) /\ pc[q] # "idle"
        /\ loaded[q][2] # 0

\* ----------------------------------------------------------------- C11
\* p's last Sync call returned because CreateFilter failed.
FailedInCreateFilter(p) == pc[p] = "idle" /\ retFrom[p] = "create_filter"

\* C11: a Sync() call that returned because CreateFilter failed returned
\* CreateFilter's error after that one CreateFilter call, and has issued no
\* fetch (neither a successful nor a failed one, so OnFailedSync was not
\* called), called no ProcessResponse, and given the store neither a filter
\* ID nor a token; the step that returns leaves the store as it is.
C11_CreateFilterFailureIsClean ==
    /\ [](\A p \in Syncers :
            FailedInCreateFilter(p) =>
                /\ ret[p] = ErrCreateFilter
                /\ loaded[p][2] = 0
                /\ filterCalls[p] = <<<<0>>, <<>>>>
                /\ fetched[p] = <<>>
                /\ failedFetch[p] = <<>>
                /\ processed[p] = <<>>
                /\ saved[p] = <<>>)
    /\ [][\A p \in Syncers :
            (pc[p] = "create_filter" /\ pc'[p] = "idle") =>
                /\ storeNextBatch' = storeNextBatch
                /\ storeFilterID' = storeFilterID]_vars

\* A Sync() call has returned CreateFilter's error while the store holds a
\* token and another cycle is running.
C11_Witness ==
    \E p, q \in Syncers :
        /\ FailedInCreateFilter(p)
        /\ storeNextBatch # 0
        /\ storeFilterID = 0
        /\ Running(q)

\* ----------------------------------------------------------------- C12
\* The goroutines that can hold syncingMutex hold it only inside
\* incrementSyncingID or getSyncingID, whose bodies do not wait.
MutexHeldBriefly ==
    /\ syncingMutex \in Syncers =>
          pc[syncingMutex] \in {"sync_increment", "check_syncing_id"}
    /\ syncingMutex = Controller <=> stopPC = "stop_increment"
    /\ \A p \in Syncers :
          pc[p] \in {"sync_increment", "check_syncing_id"} =>
              syncingMutex = p

\* C12: StopSync() waits for nothing but syncingMutex, which no cycle holds
\* during a fetch, a sleep or ProcessResponse; it adds one to syncingID and
\* changes nothing else: not the stored token, not the stored filter ID, no
\* cycle's position, local token, filter ID or fetched payload.
C12_StopSyncOnlyIncrements ==
    /\ []MutexHeldBriefly
    /\ [][stopPC' # stopPC =>
            /\ syncingID' = IF stopPC = "stop_increment"
                                THEN (syncingID + 1) % Wrap
                                ELSE syncingID
            /\ UNCHANGED <<storeNextBatch, storeFilterID, pc, mySyncingID,
                           nextBatch, filterID, resSync, ret, history>>]_vars

\* StopSync() has completed while one cycle sleeps after a failed fetch and
\* another is inside ProcessResponse.
C12_Witness ==
    \E p, q \in Syncers :
        /\ pc[p] = "sleep"
        /\ pc[q] = "process_response"
        /\ ret[p] = NoReturn /\ ret[q] = NoReturn
        /\ stopPC = "idle"
        /\ syncingID = 3
        /\ calls = 3

\* --------------------------------------------- checkpoints: vocabulary
\* d runs a dispatch started by one of the AppService senders.
FromSender(d) ==
    /\ origin[d] # <<>>
    /\ origin[d][1] \in {"SendMessageSendCheckpoint",
                         "SendErrorMessageSendCheckpoint"}

\* The attempts of d's call on one sink.
AttemptsOn(d, sink) ==
    {k \in 1 .. Len(attempts[d]) : attempts[d][k].sink = sink}

\* ----------------------------------------------------------------- C13
\* C13: the checkpoint of SendMessageSendCheckpoint(evt, step) has status
\* SUCCESS and an empty Info; the one of SendErrorMessageSendCheckpoint(evt,
\* step, err, permanent) has status PERM_FAILURE if permanent and WILL_RETRY
\* if not, and Info = err.Error(); both carry evt's ID, room ID and type and
\* the step given.
C13_CheckpointConstruction ==
    \A d \in Dispatchers :
        FromSender(d) =>
            /\ Len(batch[d]) = 1
            /\ batch[d][1].EventID = origin[d][2].ID
            /\ batch[d][1].RoomID = origin[d][2].RoomID
            /\ batch[d][1].EventType = origin[d][2].Type
            /\ batch[d][1].Step = origin[d][3]
            /\ origin[d][1] = "SendMessageSendCheckpoint" =>
                  /\ batch[d][1].Status = "SUCCESS"
                  /\ batch[d][1].Info = ""
            /\ origin[d][1] = "SendErrorMessageSendCheckpoint" =>
                  /\ batch[d][1].Status =
                        IF origin[d][5] THEN "PERM_FAILURE" ELSE "WILL_RETRY"
                  /\ batch[d][1].Info = origin[d][4].msg

\* Two dispatches are under way: a permanent failure and a retryable one,
\* reported for different events with different errors.
C13_Witness ==
    \E d, e \in Dispatchers :
        /\ FromSender(d) /\ FromSender(e)
        /\ origin[d][1] = "SendErrorMessageSendCheckpoint"
        /\ origin[e][1] = "SendErrorMessageSendCheckpoint"
        /\ origin[d][5] /\ ~origin[e][5]
        /\ origin[d][2] # origin[e][2]
        /\ origin[d][4] # origin[e][4]

\* ----------------------------------------------------------------- C14
\* C14: every checkpoint built by NewMessageSendCheckpoint, directly or by
\* the two senders, has ReportedBy = BRIDGE, and still has it in every
\* envelope handed to a sink: nothing on the way sets ASMUX.
C14_ReportedByBridge ==
    \A d \in Dispatchers :
        /\ \A k \in 1 .. Len(batch[d]) : batch[d][k].ReportedBy = "BRIDGE"
        /\ \A a \in AttemptsOn(d, "websocket") :
              \A k \in 1 .. Len(attempts[d][a].request.Data.Checkpoints) :
                  attempts[d][a].request.Data.Checkpoints[k].ReportedBy
                      = "BRIDGE"
        /\ \A a \in AttemptsOn(d, "http") :
              \A k \in 1 .. Len(attempts[d][a].request.body.checkpoints) :
                  attempts[d][a].request.body.checkpoints[k]["reported_by"]
                      = "BRIDGE"

\* A sender's checkpoint has gone out over the websocket and a batch of two
\* has been posted.
C14_Witness ==
    \E d, e \in Dispatchers :
        /\ FromSender(d)
        /\ AttemptsOn(d, "websocket") # {}
        /\ AttemptsOn(e, "http") # {}
        /\ Len(batch[e]) = 2

\* ----------------------------------------------------------------- C15
\* C15: a sender that has spawned its dispatch can return at once, whatever
\* the dispatches are doing; it takes no step in between.
C15_SenderNeverWaits ==
    callerPC = "go" => ENABLED SenderReturns

\* The sender has returned while the dispatch it spawned waits for the
\* collector's response, and an earlier one has failed.
C15_Witness ==
    \E d, e \in Dispatchers :
        /\ callerPC = "idle"
        /\ FromSender(d) /\ cpPC[d] = "await_response"
        /\ FromSender(e) /\ cpPC[e] = "done" /\ result[e] # ErrNone

\* ----------------------------------------------------------------- C16
\* C16: a SendCheckpoints call that finds the websocket established sends
\* the batch as one "message_checkpoint" command and returns what the send
\* returned; it makes no HTTP request, whatever the endpoint and whether or
\* not the send failed.
C16_WebsocketFirst ==
    /\ [](\A d \in Dispatchers :
            /\ cpPC[d] = "send_websocket" => attempts[d] = <<>>
            /\ AttemptsOn(d, "websocket") # {} =>
                  /\ Len(attempts[d]) = 1
                  /\ attempts[d][1].request.Command = "message_checkpoint"
                  /\ attempts[d][1].request.Data.Checkpoints = batch[d]
                  /\ cpPC[d] = "done"
                  /\ result[d] = attempts[d][1].outcome)
    /\ [][\A d \in Dispatchers :
            /\ (cpPC[d] = "send_checkpoints" /\ websocket
                    /\ cpPC'[d] # cpPC[d]) =>
                  cpPC'[d] = "send_websocket"
            /\ (cpPC[d] = "send_websocket" /\ cpPC'[d] # cpPC[d]) =>
                  /\ cpPC'[d] = "done"
                  /\ AttemptsOn(d, "websocket")' # {}]_vars

\* With an HTTP endpoint configured, a websocket send has failed and the
\* call has returned.
C16_Witness ==
    \E d \in Dispatchers :
        /\ endpoint = GoodEndpoint
        /\ cpPC[d] = "done"
        /\ result[d] = ErrWebsocket
        /\ Len(batch[d]) = 2

\* ----------------------------------------------------------------- C17
\* d's call took neither the websocket nor the HTTP path.
NoSink(d) ==
    /\ cpPC[d] = "done"
    /\ AttemptsOn(d, "websocket") = {}
    /\ endpoint = NoEndpoint

\* C17: with no endpoint configured, a SendCheckpoints call that does not
\* find the websocket established returns nil at once and attempts no
\* delivery, whatever its batch; no call ever builds or posts a request.
C17_NothingConfigured ==
    /\ [](\A d \in Dispatchers :
            /\ NoSink(d) => result[d] = ErrNone /\ attempts[d] = <<>>
            /\ endpoint = NoEndpoint =>
                  /\ cpPC[d] \notin {"new_request", "do", "await_response"}
                  /\ AttemptsOn(d, "http") = {})
    /\ [][\A d \in Dispatchers :
            (cpPC[d] = "send_checkpoints" /\ ~websocket
                /\ endpoint = NoEndpoint /\ cpPC'[d] # cpPC[d]) =>
                    /\ cpPC'[d] = "done"
                    /\ result'[d] = ErrNone
                    /\ attempts'[d] = <<>>]_vars

\* With nothing configured, two calls have returned nil: a sender's
\* checkpoint and a batch of two.
C17_Witness ==
    \E d, e \in Dispatchers :
        /\ ~websocket
        /\ NoSink(d) /\ NoSink(e)
        /\ FromSender(d)
        /\ Len(batch[e]) = 2
        /\ result[d] = ErrNone /\ result[e] = ErrNone

\* ----------------------------------------------------------------- C18
\* d's call took the HTTP path and has returned.
HTTPPathDone(d) ==
    /\ cpPC[d] = "done"
    /\ AttemptsOn(d, "websocket") = {}
    /\ endpoint # NoEndpoint

\* An attempt is a POST to the endpoint carrying the AppService's token.
AuthenticatedPost(a) ==
    /\ a.sink = "http"
    /\ a.request.method = "POST"
    /\ a.request.url = endpoint
    /\ a.request.Authorization = <<"Bearer", AppToken>>

\* C18 as stated: a call that took the HTTP path has issued one
\* authenticated POST, and has returned nil if and only if the response's
\* status was in 200..299.
C18_OnePostAlways ==
    \A d \in Dispatchers :
        HTTPPathDone(d) =>
            /\ Len(attempts[d]) = 1
            /\ AuthenticatedPost(attempts[d][1])
            /\ result[d] = ErrNone <=>
                  /\ attempts[d][1].outcome = "response"
                  /\ attempts[d][1].status \in 200 .. 299

\* C18, amended: a call that took the HTTP path has issued at most one
\* POST, an authenticated one: none if the request could not be built (it
\* returned that error) and one otherwise; it has returned nil if and only
\* if it received a response with a status in 200..299, and an error after a
\* transport error or any other status.
C18_PostUnlessRequestFails ==
    \A d \in Dispatchers :
        HTTPPathDone(d) =>
            /\ Len(attempts[d]) <= 1
            /\ attempts[d] = <<>> <=> result[d] \in {ErrEncode, ErrNewRequest}
            /\ attempts[d] = <<>> => endpoint = BadEndpoint
            /\ attempts[d] # <<>> =>
                  /\ AuthenticatedPost(attempts[d][1])
                  /\ attempts[d][1].outcome \in {"response", ErrDo}
                  /\ result[d] = ErrNone <=>
                        /\ attempts[d][1].outcome = "response"
                        /\ attempts[d][1].status \in 200 .. 299
                  /\ result[d] = ErrDo <=> attempts[d][1].outcome = ErrDo
                  /\ result[d] = ErrStatus <=>
                        /\ attempts[d][1].outcome = "response"
                        /\ attempts[d][1].status \notin 200 .. 299

\* One call has returned nil on a 299 response, another an error on a 300.
C18_Witness ==
    \E d, e \in Dispatchers :
        /\ HTTPPathDone(d) /\ HTTPPathDone(e)
        /\ attempts[d] # <<>> /\ attempts[e] # <<>>
        /\ attempts[d][1].status = 299 /\ result[d] = ErrNone
        /\ attempts[e][1].status = 300 /\ result[e] = ErrStatus

\* ----------------------------------------------------------------- C19
\* C19: a SendCheckpoints call attempts at most one delivery, and none once
\* an attempt has an outcome; when it returns, with or without an error, the
\* websocket, the endpoint and the other dispatches are as they were.
C19_NoRetryNoDamage ==
    /\ [](\A d \in Dispatchers :
            /\ Len(attempts[d]) <= 1
            /\ (attempts[d] # <<>> /\ attempts[d][1].outcome # "in flight")
                  => cpPC[d] = "done")
    /\ [][\A d \in Dispatchers :
            (cpPC[d] # "done" /\ cpPC'[d] = "done") =>
                /\ UNCHANGED <<websocket, endpoint, callerPC>>
                /\ \A e \in Dispatchers \ {d} :
                      /\ cpPC'[e] = cpPC[e]
                      /\ batch'[e] = batch[e]
                      /\ attempts'[e] = attempts[e]
                      /\ result'[e] = result[e]]_vars

\* One dispatch has failed on its POST and returned; another is delivered
\* over the same endpoint.
C19_Witness ==
    \E d, e \in Dispatchers :
        /\ cpPC[d] = "done" /\ result[d] = ErrDo
        /\ cpPC[e] = "done" /\ result[e] = ErrNone
        /\ AttemptsOn(e, "http") # {}

\* ----------------------------------------------------------------- C20
\* The JSON object o carries the fields of checkpoint cp, the omitempty
\* ones only when not empty.
CarriesFields(o, cp) ==
    /\ o["event_id"] = cp.EventID
    /\ o["room_id"] = cp.RoomID
    /\ o["step"] = cp.Step
    /\ o["timestamp"] = cp.Timestamp
    /\ o["status"] = cp.Status
    /\ o["event_type"] = cp.EventType
    /\ o["reported_by"] = cp.ReportedBy
    /\ o["retry_num"] = cp.RetryNum
    /\ "message_type" \in DOMAIN o <=> cp.MessageType # ""
    /\ "message_type" \in DOMAIN o => o["message_type"] = cp.MessageType
    /\ "info" \in DOMAIN o <=> cp.Info # ""
    /\ "info" \in DOMAIN o => o["info"] = cp.Info

\* The checkpoint a sender built from the arguments of its call.
Constructed(call) ==
    IF call[1] = "SendMessageSendCheckpoint"
       THEN SuccessCheckpoint(call[2], call[3])
       ELSE ErrorCheckpoint(call[2], call[3], call[4], call[5])

\* C20: what a sink is handed holds the checkpoints of the call, as many
\* and in the same order, every field as the checkpoint has it (info only
\* where Info is not empty); a sender's checkpoint, as constructed, is the
\* one element of its batch.
C20_EnvelopeIsTheBatch ==
    \A d \in Dispatchers :
        /\ FromSender(d) => batch[d] = <<Constructed(origin[d])>>
        /\ \A a \in AttemptsOn(d, "websocket") :
              attempts[d][a].request.Data.Checkpoints = batch[d]
        /\ \A a \in AttemptsOn(d, "http") :
              /\ DOMAIN attempts[d][a].request.body = {"checkpoints"}
              /\ Len(attempts[d][a].request.body.checkpoints)
                    = Len(batch[d])
              /\ \A k \in 1 .. Len(batch[d]) :
                    CarriesFields(attempts[d][a].request.body.checkpoints[k],
                                  batch[d][k])

\* A batch of a SUCCESS and a PERM_FAILURE checkpoint has been posted: two
\* entries, in that order, info on the second only.
C20_Witness ==
    \E d \in Dispatchers :
        /\ AttemptsOn(d, "http") # {}
        /\ Len(attempts[d][1].request.body.checkpoints) = 2
        /\ attempts[d][1].request.body.checkpoints[1]["status"] = "SUCCESS"
        /\ "info" \notin DOMAIN attempts[d][1].request.body.checkpoints[1]
        /\ attempts[d][1].request.body.checkpoints[2]["status"]
              = "PERM_FAILURE"
        /\ attempts[d][1].request.body.checkpoints[2]["info"] = "not allowed"

\* ------------------------------------------------------------ C21
\* The text occurs in the message as consecutive pieces.
Embeds(msg, text) ==
    \E i \in 0..(Len(msg) - Len(text)) :
        \A k \in 1..Len(text) : msg[i + k] = text[k]

\* MakeRequest has returned after a response that is not 2xx.
NotOKReturned ==
    /\ mrPC = "done"
    /\ mrResponse # NoResponse
    /\ mrResponse.StatusCode \div 100 # 2

\* C21: when MakeRequest returns after a response that is not 2xx, it
\* returns the body bytes it read and an HTTPError whose Code is the HTTP
\* status. If the body decodes to an error structure with a non-empty
\* error code, WrappedError and RespError are that structure and the
\* message does not embed the body; otherwise both are nil and the
\* message contains the body text verbatim.
C21_ErrorClassification ==
    NotOKReturned =>
        LET contents == mrResponse.contents
            err == mrReturn.err
            decoded == RespError(contents)
        IN /\ mrReturn.body = Bytes(contents)
           /\ err.kind = "HTTPError"
           /\ err.Code = mrResponse.StatusCode
           /\ IF ValidJSON(contents) /\ decoded.ErrCode # ""
              THEN /\ err.WrappedError = decoded
                   /\ err.RespError = decoded
                   /\ ~Embeds(err.Message, contents)
              ELSE /\ err.WrappedError = Nil
                   /\ err.RespError = Nil
                   /\ Embeds(err.Message, contents)

\* A proxy answered 502 with an HTML page, and MakeRequest returned.
C21_Witness ==
    /\ NotOKReturned
    /\ mrResponse.StatusCode = 502
    /\ mrResponse.contents = HTMLBody
    /\ mrReturn.err.WrappedError = Nil

\* ------------------------------------------------------------ C22
\* p's cycle calls cli.Store.SaveNextBatch in this step.
CallsSaveNextBatch(p) ==
    pc[p] = "save_next_batch" /\ pc'[p] = "process_response"

\* p's cycle calls cli.Syncer.ProcessResponse in this step.
CallsProcessResponse(p) ==
    pc[p] = "process_response" /\ pc'[p] # "process_response"

\* C22: every SaveNextBatch call and every ProcessResponse call is made by
\* a cycle whose captured generation equals the client's current
\* generation at the moment of the call.
C22_CallsOnlyWhileLive ==
    [][\A p \in Syncers :
          CallsSaveNextBatch(p) \/ CallsProcessResponse(p)
              => ~Superseded(p)]_vars

\* ------------------------------------------------------------ C23
\* p's cycle is in a fetch, in the backoff sleep, in OnFailedSync, in
\* CreateFilter, in a store call or in ProcessResponse.
Blocked(p) ==
    pc[p] \in {"load_next_batch", "load_filter_id", "create_filter",
               "save_filter_id", "sync_request", "on_failed_sync", "sleep",
               "save_next_batch", "process_response"}

\* C23 as stated: in every reachable state where some cycle is blocked in
\* a fetch, the backoff sleep, CreateFilter, a store call or
\* ProcessResponse, the mutex is free.
C23_MutexFreeWhileBlocked ==
    (\E p \in Syncers : Blocked(p)) => syncingMutex = NoProc

\* C23, amended: a cycle blocked in a fetch, the backoff sleep,
\* CreateFilter, a store call or ProcessResponse does not hold the mutex.
\* Whoever holds it is inside incrementSyncingID or getSyncingID and can
\* release it at once, and while it is free a StopSync() or Sync() call can
\* take it, whatever the cycles are blocked in.
C23_MutexNotHeldAcrossIO ==
    [](/\ \A p \in Syncers : Blocked(p) => syncingMutex # p
       /\ \A p \in Syncers :
             syncingMutex = p =>
                 /\ pc[p] \in {"sync_increment", "check_syncing_id"}
                 /\ ENABLED (SyncIncrement(p) \/ CheckSyncingID(p))
       /\ syncingMutex = Controller =>
             /\ stopPC = "stop_increment"
             /\ ENABLED StopSyncIncrement
       /\ syncingMutex = NoProc /\ calls < MaxGen =>
             /\ stopPC = "idle" /\ ENABLED StopSyncCall
             /\ \A p \in Syncers : pc[p] = "idle" => ENABLED SyncCall(p))

\* One cycle sleeps after a failed fetch while another Sync() call is
\* inside incrementSyncingID, holding the mutex.
C23_Witness ==
    \E p, q \in Syncers :
        /\ pc[p] = "sleep"
        /\ pc[q] = "sync_increment"
        /\ syncingMutex = q

\* ------------------------------------------------------------ C24
\* This step is the increment at the entry of a Sync() call or the one in
\* StopSync().
IncrementStep ==
    \/ \E p \in Syncers :
          pc[p] = "sync_increment" /\ pc'[p] = "load_next_batch"
    \/ stopPC = "stop_increment" /\ stopPC' = "idle"

\* The latest Sync() call of p has captured its generation (it may have
\* returned since).
Captured(p) ==
    /\ pc[p] # "sync_increment"
    /\ pc[p] = "idle" => ret[p] # NoReturn

\* The values captured by distinct Sync() invocations are distinct.
CapturedDistinct ==
    \A p, q \in Syncers :
        p # q /\ Captured(p) /\ Captured(q) =>
            mySyncingID[p] # mySyncingID[q]

\* C24 as stated: the generation counter changes only by +1, only at the
\* entry of Sync() and in StopSync(); it never decreases, and the values
\* captured by distinct Sync() invocations are pairwise distinct.
C24_CounterOnlyGrows ==
    /\ [][syncingID' # syncingID =>
            /\ syncingID' = syncingID + 1
            /\ IncrementStep]_vars
    /\ [][syncingID' >= syncingID]_vars
    /\ []CapturedDistinct

\* C24, amended: the generation counter changes only at the entry of
\* Sync() and in StopSync(), each time to the next value of an unsigned
\* integer of its width, which after the largest value is 0; each such
\* step changes it; and the values captured by Sync() invocations that
\* fewer increments than the counter has values lie between are distinct.
C24_CounterModulo ==
    /\ [][syncingID' # syncingID => IncrementStep]_vars
    /\ [][IncrementStep =>
            /\ syncingID' = (syncingID + 1) % Wrap
            /\ syncingID' # syncingID
            /\ syncingID' < syncingID <=>
                  (syncingID = Wrap - 1 /\ syncingID' = 0)]_vars
    /\ []CapturedDistinct

\* A Sync() invocation has captured 0 from the counter that wrapped, while
\* the invocation before it holds the largest value.
C24_Witness ==
    \E p, q \in Syncers :
        /\ Captured(p) /\ Captured(q)
        /\ mySyncingID[p] = Wrap - 1
        /\ mySyncingID[q] = 0
        /\ syncingID = 0

\* ------------------------------------------------------------ C25
\* C25: the continuation token held in the store never moves backwards: no
\* SaveNextBatch writes a token older than the one already stored.
C25_StoredTokenNeverMovesBack ==
    [][storeNextBatch' >= storeNextBatch]_vars

\* ------------------------------------------------------------ C26
\* C26: ProcessResponse is never invoked twice for the same batch, that is
\* with the same since-token: not twice by one Sync() call, and not by a
\* newly started call and by the call it superseded.
C26_NoBatchProcessedTwice ==
    \A p, q \in Syncers :
        \A i \in 1..Len(processed[p]), j \in 1..Len(processed[q]) :
            (p # q \/ i # j) => processed[p][i][1] # processed[q][j][1]

\* ------------------------------------------------------------ C27
\* q's last Sync() call failed on CreateFilter, and p's cycle, running
\* now, took its generation before that call took its own.
RetiredBy(p, q) ==
    /\ FailedInCreateFilter(q)
    /\ Running(p)
    /\ mySyncingID[p] < mySyncingID[q]

\* C27 as stated: when a Sync() call returns the error of CreateFilter, no
\* running cycle is live.
C27_NoLiveCycleAfterFailure ==
    [][\A q \in Syncers :
          (pc[q] = "create_filter" /\ pc'[q] = "idle") =>
              \A p \in Syncers : ~Live(p)']_vars

\* C27, amended: a Sync() call takes its generation before it resolves the
\* filter, so once it has returned the error of CreateFilter every running
\* cycle that took its generation earlier is superseded, and such a cycle
\* returns nil at the generation check that follows its next successful
\* fetch, the store untouched. A cycle started later can be live.
C27_FailedCallRetiresEarlier ==
    /\ [](\A p \in Syncers :
            pc[p] \in {"load_next_batch", "load_filter_id", "create_filter",
                       "save_filter_id"} =>
                /\ mySyncingID[p] # 0
                /\ fetched[p] = <<>>)
    /\ [](\A p, q \in Syncers : RetiredBy(p, q) => Superseded(p))
    /\ [][\A p, q \in Syncers :
            (RetiredBy(p, q) /\ pc[p] = "check_syncing_id"
                 /\ pc'[p] # pc[p]) =>
                /\ pc'[p] = "idle"
                /\ ret'[p] = ErrNone
                /\ UNCHANGED <<storeNextBatch, storeFilterID>>]_vars

\* A Sync() call has failed on CreateFilter; the cycle that ran before it
\* has fetched a payload and is at its generation check.
C27_Witness ==
    \E p, q \in Syncers :
        /\ RetiredBy(p, q)
        /\ pc[p] = "check_syncing_id"
        /\ Len(fetched[p]) >= 1

\* ------------------------------------------------------------ C28
\* p's Sync() call returns nil in this step: it exits for supersession.
ExitsSuperseded(p) ==
    pc[p] # "idle" /\ pc'[p] = "idle" /\ ret'[p] = ErrNone

=============================================================================
